---- MODULE Spec2Model ----
(***************************************************************************)
(* Concurrent seat-reservation engine: Reserve (CreateReservationAction),  *)
(* Confirm-Payment (ConfirmPaymentAction) and the expiration Reaper        *)
(* (ReservationsCleanupService), over a relational store (seats,           *)
(* reservations, sales), a coordination store (seat locks, idempotency     *)
(* markers, reaper leader lock) and an event bus.                          *)
(*                                                                         *)
(* Every await of the code is one atomic step of the model; a call's       *)
(* position is its pc.  Time is a clock counted in units of 30 s, so the   *)
(* 30 s seat-lock TTL is 1 unit and the 60 s idempotency TTL is 2 units.   *)
(* The 4.5 s leader-lock TTL is shorter than one unit: its expiry is a     *)
(* step of its own that can happen between any two clock values.           *)
(***************************************************************************)
EXTENDS Integers, Sequences, FiniteSets, TLC

\* ------------------------------------------------------------- bounds
\* the clock runs from 0 to MaxTime
MaxTime == 2

\* ------------------------------------------------- program constants
\* TTL = 30000 ms (seat lock and reservation lifetime): one clock unit
SeatTTL == 1
\* idempotency marker / stored response, PX 60000 ms: two clock units
IdemTTL == 2
\* for (let i = 0; i < 15; i++): poll rounds
PollRounds == 15
\* the session's price (25.00), copied into the sale's amount
Price == 25

\* defaultOptions of the retry handler: maxRetries, baseDelayMs, maxDelayMs
MaxRetries == 5
BaseDelayMs == 1000
MaxDelayMs == 30000

\* seats s1, s2 of one session; the numbers order them as their id strings sort
Seats == {1, 2}
Users == {"A", "B"}
\* concurrent Reserve calls, Confirm-Payment calls and API replicas
RCalls == {1, 2}
CCalls == {1, 2}
Replicas == {1, 2}
\* messages on the event bus whose consumer may fail
Msgs == {1, 2}
EvTypes == {"reservation.created", "payment.confirmed", "reservation.expired", "seat.released"}

VARIABLES clock, seatStatus, res, sales, seatLock, idem, leader, rc, cc, rp, ev, view, mq

vars == <<clock, seatStatus, res, sales, seatLock, idem, leader, rc, cc, rp, ev, view, mq>>

\* ------------------------------------------------------------ helpers
Range(s) == {s[i] : i \in DOMAIN s}

RECURSIVE Insert(_, _)
Insert(x, s) ==
    IF s = <<>> THEN <<x>>
    ELSE IF x <= Head(s) THEN <<x>> \o s
    ELSE <<Head(s)>> \o Insert(x, Tail(s))

\* the request's order kept: the sort left out
SortNone(s) == s

\* [...seatIds].sort(): seat ids are numbered in the lexicographic order of
\* their id strings
RECURSIVE Sort(_)
Sort(s) == IF s = <<>> THEN <<>> ELSE Insert(Head(s), Sort(Tail(s)))

\* non-empty lists of distinct seat ids, in any order (the request's seatIds)
SeatLists ==
    {s \in UNION {[1..n -> Seats] : n \in 1..Cardinality(Seats)} :
        \A i, j \in DOMAIN s : i # j => s[i] # s[j]}

\* coordination-store values
NoKey == [val |-> "nil", exp |-> 0]
Key(v, e) == [val |-> v, exp |-> e]

\* idempotency cache bodies: the processing marker and a final response
NoBody == [status |-> "nil", reservationIds |-> <<>>, expiresAt |-> 0]
Marker == [status |-> "processing", reservationIds |-> <<>>, expiresAt |-> 0]
Response(rids, e) == [status |-> "undefined", reservationIds |-> rids, expiresAt |-> e]
NoIdem == [body |-> NoBody, exp |-> 0]

\* ---------------------------------------------------------- call state
\* reclaim records whether the call was issued for seats given back by the
\* reaper: each has a reservation of another user that a reaper tick cancelled
\* and no reservation that is not CANCELLED, and no other Reserve call is running;
\* retry records whether the call repeats, with the same idempotency key, a call
\* that had returned the error of its insert transaction
RIdle ==
    [pc |-> "idle", user |-> "A", seats |-> <<>>, key |-> FALSE, idx |-> 0,
     acq |-> <<>>, poll |-> 0, expiresAt |-> 0, rids |-> <<>>, err |-> "",
     out |-> "", body |-> NoBody, reclaim |-> FALSE, retry |-> FALSE]

\* fresh records whether the reservation was PENDING and unexpired when the
\* call was issued
CIdle == [pc |-> "idle", rid |-> 0, now |-> 0, fresh |-> FALSE, out |-> ""]

PIdle == [pc |-> "idle", now |-> 0, found |-> {}]

\* the x-retry-count header of a message: absent, a number, a text that is
\* not a numeral, or a boolean (n is what Number() makes of true and false)
NoHeader == [kind |-> "absent", n |-> 0]
Num(n) == [kind |-> "number", n |-> n]
Text == [kind |-> "text", n |-> 0]
Bool(b) == [kind |-> "boolean", n |-> IF b THEN 1 ELSE 0]

\* a message of the bus: where it is, the exchange and routing key of its
\* delivery (msg.fields), its headers x-retry-count, x-original-exchange and
\* x-original-routing-key ("none" while absent), the publishes the error handler
\* made for it, and how often its deliveries failed and were acked by the
\* error handler
MIdle ==
    [at |-> "none", ex |-> "none", rk |-> "none", count |-> NoHeader,
     origEx |-> "none", origRk |-> "none", pubs |-> <<>>, fails |-> 0, acks |-> 0]

\* a call of the read path: the session's seats as read, then as returned
VIdle == [pc |-> "idle", seats |-> <<>>]

Init ==
    /\ clock = 0
    /\ seatStatus = [s \in Seats |-> "AVAILABLE"]
    /\ res = <<>>
    /\ sales = {}
    /\ seatLock = [s \in Seats |-> NoKey]
    /\ idem = [u \in Users |-> NoIdem]
    /\ leader = 0
    /\ rc = [c \in RCalls |-> RIdle]
    /\ cc = [c \in CCalls |-> CIdle]
    /\ rp = [p \in Replicas |-> PIdle]
    /\ ev = [t \in EvTypes |-> <<>>]
    /\ view = VIdle
    /\ mq = [m \in Msgs |-> MIdle]

\* ------------------------------------------------ coordination store
\* a SET without NX: always "OK"
SetAlways(k) == TRUE

\* redis.set(key, value, 'PX', ttl, 'NX'): true iff the key was absent
SetNX(k) == k = NoKey

\* time passes: keys whose PX deadline is reached are gone
Expire(k, now) == IF k.exp <= now THEN NoKey ELSE k
ExpireIdem(k, now) == IF k.exp <= now THEN NoIdem ELSE k

Tick ==
    /\ clock < MaxTime
    /\ clock' = clock + 1
    /\ seatLock' = [s \in Seats |-> Expire(seatLock[s], clock + 1)]
    /\ idem' = [u \in Users |-> ExpireIdem(idem[u], clock + 1)]
    /\ UNCHANGED <<seatStatus, res, sales, leader, rc, cc, rp, ev, view, mq>>

\* ================================================================ Reserve
\* CreateReservationAction.execute and its helpers

RDone(r, kind, b) ==
    [RIdle EXCEPT !.pc = "done", !.user = r.user, !.seats = r.seats, !.key = r.key,
                  !.rids = r.rids, !.out = kind, !.body = b, !.reclaim = r.reclaim,
                  !.retry = r.retry]

\* the catch block of execute: delete the idempotency marker, then the locks
\* held in execute's acquiredLocks, then rethrow
RCatch(r, kind) ==
    IF r.key THEN [r EXCEPT !.pc = "catchIdem", !.err = kind, !.idx = 0]
    ELSE IF r.acq # <<>> THEN [r EXCEPT !.pc = "catchLocks", !.err = kind, !.idx = 0]
    ELSE RDone(r, kind, NoBody)

Reclaimed(c, u, sl) ==
    /\ \A c2 \in RCalls \ {c} : rc[c2].pc = "done"
    /\ \A s \in Range(sl) :
          /\ \E i \in DOMAIN res :
                res[i].seatId = s /\ res[i].by = "reaper" /\ res[i].userId # u
          /\ \A i \in DOMAIN res : res[i].seatId = s => res[i].status = "CANCELLED"

Retried(c, u, sl, k) ==
    /\ k
    /\ \A c2 \in RCalls \ {c} : rc[c2].pc = "done"
    /\ \E c2 \in RCalls \ {c} :
          /\ rc[c2].out = "Internal" /\ rc[c2].rids = <<>>
          /\ rc[c2].key /\ rc[c2].user = u /\ rc[c2].seats = sl

R_Start(c, users, lists, keys) ==
    /\ rc[c].pc = "idle"
    /\ \E u \in users, sl \in lists, k \in keys :
          rc' = [rc EXCEPT ![c] = [RIdle EXCEPT !.pc = IF k THEN "idemGet" ELSE "findSeats",
                                                !.user = u, !.seats = sl, !.key = k,
                                                !.reclaim = Reclaimed(c, u, sl),
                                                !.retry = Retried(c, u, sl, k)]]
    /\ UNCHANGED <<clock, seatStatus, res, sales, seatLock, idem, leader, cc, rp, ev, view, mq>>

\* checkExistingCacheKey: redis.get(idemCacheKey)
R_IdemGet(c) ==
    LET r == rc[c]
        existing == idem[r.user].body
    IN  /\ r.pc = "idemGet"
        /\ rc' = [rc EXCEPT ![c] =
                    IF existing.status = "nil" THEN [r EXCEPT !.pc = "idemSet"]
                    ELSE IF existing.status = "processing" THEN [r EXCEPT !.pc = "poll", !.poll = 0]
                    ELSE RDone(r, "ok", existing)]
        /\ UNCHANGED <<clock, seatStatus, res, sales, seatLock, idem, leader, cc, rp, ev, view, mq>>

\* checkIfIdemCacheKeyIsProcessing: one round of sleep(100) + redis.get
R_Poll(c) ==
    LET r == rc[c]
        retry == idem[r.user].body
    IN  /\ r.pc = "poll"
        /\ rc' = [rc EXCEPT ![c] =
                    IF retry.status # "nil" /\ retry.status # "processing"
                    THEN RDone(r, "ok", retry)
                    ELSE IF r.poll + 1 >= PollRounds THEN RDone(r, "Conflict", NoBody)
                    ELSE [r EXCEPT !.poll = r.poll + 1]]
        /\ UNCHANGED <<clock, seatStatus, res, sales, seatLock, idem, leader, cc, rp, ev, view, mq>>

\* markIdemCacheKeyAsProcessing: redis.set(key, processing, 'PX', 60000, 'NX')
R_IdemSet(c) ==
    LET r == rc[c]
        claimed == idem[r.user] = NoIdem
    IN  /\ r.pc = "idemSet"
        /\ idem' = IF claimed
                   THEN [idem EXCEPT ![r.user] = [body |-> Marker, exp |-> clock + IdemTTL]]
                   ELSE idem
        /\ rc' = [rc EXCEPT ![c] = [r EXCEPT !.pc = IF claimed THEN "findSeats" ELSE "idemReGet"]]
        /\ UNCHANGED <<clock, seatStatus, res, sales, seatLock, leader, cc, rp, ev, view, mq>>

\* markIdemCacheKeyAsProcessing, not claimed: redis.get again, return what is there
R_IdemReGet(c) ==
    LET r == rc[c]
        retry == idem[r.user].body
    IN  /\ r.pc = "idemReGet"
        /\ rc' = [rc EXCEPT ![c] =
                    IF retry.status # "nil" THEN RDone(r, "ok", retry)
                    ELSE RDone(r, "Conflict", NoBody)]
        /\ UNCHANGED <<clock, seatStatus, res, sales, seatLock, idem, leader, cc, rp, ev, view, mq>>

\* a validation that checks only that every requested seat exists
R_FindSeatsNoStatus(c) ==
    LET r == rc[c]
        sorted == Sort(r.seats)
        found == {s \in Range(sorted) : s \in Seats}
    IN  /\ r.pc = "findSeats"
        /\ rc' = [rc EXCEPT ![c] =
                    IF Cardinality(found) # Len(sorted) THEN RCatch(r, "NotFound")
                    ELSE [r EXCEPT !.pc = "lock", !.idx = 0]]
        /\ UNCHANGED <<clock, seatStatus, res, sales, seatLock, idem, leader, cc, rp, ev, view, mq>>

\* prisma.seat.findMany + validateSeatsAvailability
R_FindSeats(c) ==
    LET r == rc[c]
        sorted == Sort(r.seats)
        found == {s \in Range(sorted) : s \in Seats}
        soldSeats == {s \in found : seatStatus[s] # "AVAILABLE"}
    IN  /\ r.pc = "findSeats"
        /\ rc' = [rc EXCEPT ![c] =
                    IF Cardinality(found) # Len(sorted) THEN RCatch(r, "NotFound")
                    ELSE IF soldSeats # {} THEN RCatch(r, "Conflict")
                    ELSE [r EXCEPT !.pc = "lock", !.idx = 0]]
        /\ UNCHANGED <<clock, seatStatus, res, sales, seatLock, idem, leader, cc, rp, ev, view, mq>>

\* a lock acquisition that waits for the key to be free instead of failing
R_LockBlocking(c) ==
    LET r == rc[c]
        sorted == Sort(r.seats)
        s == sorted[r.idx + 1]
    IN  /\ r.pc = "lock"
        /\ seatLock[s] = NoKey
        /\ seatLock' = [seatLock EXCEPT ![s] = Key(r.user, clock + SeatTTL)]
        /\ rc' = [rc EXCEPT ![c] =
                    IF r.idx + 1 = Len(sorted)
                    THEN [r EXCEPT !.pc = "stamp", !.idx = 0, !.acq = sorted]
                    ELSE [r EXCEPT !.idx = r.idx + 1]]
        /\ UNCHANGED <<clock, seatStatus, res, sales, idem, leader, cc, rp, ev, view, mq>>

\* lockSeats: one redis.set(lockKey, userId, 'PX', TTL, 'NX') of the loop
R_Lock(c) ==
    LET r == rc[c]
        sorted == Sort(r.seats)
        s == sorted[r.idx + 1]
        acquired == SetNX(seatLock[s])
    IN  /\ r.pc = "lock"
        /\ seatLock' = IF acquired
                       THEN [seatLock EXCEPT ![s] = Key(r.user, clock + SeatTTL)]
                       ELSE seatLock
        /\ rc' = [rc EXCEPT ![c] =
                    IF acquired
                    THEN IF r.idx + 1 = Len(sorted)
                         THEN [r EXCEPT !.pc = "stamp", !.idx = 0, !.acq = sorted]
                         ELSE [r EXCEPT !.idx = r.idx + 1]
                    ELSE IF r.idx > 0 THEN [r EXCEPT !.pc = "lockRollback"]
                    ELSE RCatch(r, "Conflict")]
        /\ UNCHANGED <<clock, seatStatus, res, sales, idem, leader, cc, rp, ev, view, mq>>

\* a lockSeats catch that rethrows and leaves the locks taken so far
R_LockRollbackKeep(c) ==
    LET r == rc[c]
    IN  /\ r.pc = "lockRollback"
        /\ rc' = [rc EXCEPT ![c] = RCatch(r, "Conflict")]
        /\ UNCHANGED <<clock, seatStatus, res, sales, seatLock, idem, leader, cc, rp, ev, view, mq>>

\* lockSeats catch: redis.del(...acquiredLocks), rethrow
R_LockRollback(c) ==
    LET r == rc[c]
        sorted == Sort(r.seats)
        mine == {sorted[i] : i \in 1..r.idx}
    IN  /\ r.pc = "lockRollback"
        /\ seatLock' = [s \in Seats |-> IF s \in mine THEN NoKey ELSE seatLock[s]]
        /\ rc' = [rc EXCEPT ![c] = RCatch(r, "Conflict")]
        /\ UNCHANGED <<clock, seatStatus, res, sales, idem, leader, cc, rp, ev, view, mq>>

\* const expiresAt = new Date(Date.now() + TTL), read when lockSeats has returned
R_Stamp(c) ==
    LET r == rc[c]
    IN  /\ r.pc = "stamp"
        /\ rc' = [rc EXCEPT ![c] = [r EXCEPT !.pc = "insert", !.expiresAt = clock + SeatTTL]]
        /\ UNCHANGED <<clock, seatStatus, res, sales, seatLock, idem, leader, cc, rp, ev, view, mq>>

\* by records which path cancelled the row ("reaper" or "pay"), "" while none has
NewRows(r) ==
    [i \in 1..Len(r.acq) |->
        [userId |-> r.user, seatId |-> r.acq[i], status |-> "PENDING",
         expiresAt |-> r.expiresAt, by |-> ""]]

\* createReservations: one transaction creating one PENDING row per seat
R_Insert(c) ==
    LET r == rc[c]
        n == Len(res)
    IN  /\ r.pc = "insert"
        /\ res' = res \o NewRows(r)
        /\ ev' = [t \in EvTypes |-> ev[t] \o [i \in 1..Len(r.acq) |-> 0]]
        /\ rc' = [rc EXCEPT ![c] = [r EXCEPT !.pc = "publish",
                                             !.rids = [i \in 1..Len(r.acq) |-> n + i]]]
        /\ UNCHANGED <<clock, seatStatus, sales, seatLock, idem, leader, cc, rp, view, mq>>

Publish(e, type, rids) ==
    [t \in EvTypes |->
        IF t = type THEN [i \in DOMAIN e[t] |-> IF i \in rids THEN e[t][i] + 1 ELSE e[t][i]]
        ELSE e[t]]

\* Promise.all(emitReservationCreatedEvent): then the response; stored if idempotent
R_Publish(c) ==
    LET r == rc[c]
    IN  /\ r.pc = "publish"
        /\ ev' = Publish(ev, "reservation.created", Range(r.rids))
        /\ rc' = [rc EXCEPT ![c] =
                    IF r.key THEN [r EXCEPT !.pc = "saveIdem"]
                    ELSE RDone(r, "ok", Response(r.rids, r.expiresAt))]
        /\ UNCHANGED <<clock, seatStatus, res, sales, seatLock, idem, leader, cc, rp, view, mq>>

\* saveIdemResponseCache: redis.set(key, JSON.stringify(response), 'PX', 60000)
R_SaveIdem(c) ==
    LET r == rc[c]
        response == Response(r.rids, r.expiresAt)
    IN  /\ r.pc = "saveIdem"
        /\ idem' = [idem EXCEPT ![r.user] = [body |-> response, exp |-> clock + IdemTTL]]
        /\ rc' = [rc EXCEPT ![c] = RDone(r, "ok", response)]
        /\ UNCHANGED <<clock, seatStatus, res, sales, seatLock, leader, cc, rp, ev, view, mq>>

\* a catch that leaves the idempotency marker in place
R_CatchIdemKeep(c) ==
    LET r == rc[c]
    IN  /\ r.pc = "catchIdem"
        /\ rc' = [rc EXCEPT ![c] =
                    IF r.acq # <<>> THEN [r EXCEPT !.pc = "catchLocks"]
                    ELSE RDone(r, r.err, NoBody)]
        /\ UNCHANGED <<clock, seatStatus, res, sales, seatLock, idem, leader, cc, rp, ev, view, mq>>

\* catch of execute: redis.del(idemCacheKey)
R_CatchIdem(c) ==
    LET r == rc[c]
    IN  /\ r.pc = "catchIdem"
        /\ idem' = [idem EXCEPT ![r.user] = NoIdem]
        /\ rc' = [rc EXCEPT ![c] =
                    IF r.acq # <<>> THEN [r EXCEPT !.pc = "catchLocks"]
                    ELSE RDone(r, r.err, NoBody)]
        /\ UNCHANGED <<clock, seatStatus, res, sales, seatLock, leader, cc, rp, ev, view, mq>>

\* a catch that rethrows without deleting the locks
R_CatchKeep(c) ==
    LET r == rc[c]
    IN  /\ r.pc = "catchLocks"
        /\ rc' = [rc EXCEPT ![c] = RDone(r, r.err, NoBody)]
        /\ UNCHANGED <<clock, seatStatus, res, sales, seatLock, idem, leader, cc, rp, ev, view, mq>>

\* catch of execute: redis.del(...acquiredLocks), throw error
R_CatchLocks(c) ==
    LET r == rc[c]
    IN  /\ r.pc = "catchLocks"
        /\ seatLock' = [s \in Seats |-> IF s \in Range(r.acq) THEN NoKey ELSE seatLock[s]]
        /\ rc' = [rc EXCEPT ![c] = RDone(r, r.err, NoBody)]
        /\ UNCHANGED <<clock, seatStatus, res, sales, idem, leader, cc, rp, ev, view, mq>>

\* a store or bus call of execute's try block rejects (infrastructure error)
R_InsertFail(c) ==
    LET r == rc[c]
    IN  /\ r.pc = "insert"
        /\ rc' = [rc EXCEPT ![c] = RCatch(r, "Internal")]
        /\ UNCHANGED <<clock, seatStatus, res, sales, seatLock, idem, leader, cc, rp, ev, view, mq>>

R_PublishFail(c) ==
    LET r == rc[c]
    IN  /\ r.pc = "publish"
        /\ \E sent \in SUBSET Range(r.rids) :
              /\ sent # Range(r.rids)
              /\ ev' = Publish(ev, "reservation.created", sent)
        /\ rc' = [rc EXCEPT ![c] = RCatch(r, "Internal")]
        /\ UNCHANGED <<clock, seatStatus, res, sales, seatLock, idem, leader, cc, rp, view, mq>>

R_SaveIdemFail(c) ==
    LET r == rc[c]
    IN  /\ r.pc = "saveIdem"
        /\ rc' = [rc EXCEPT ![c] = RCatch(r, "Internal")]
        /\ UNCHANGED <<clock, seatStatus, res, sales, seatLock, idem, leader, cc, rp, ev, view, mq>>

\* the steps of a Reserve call without idempotency key, one seat
ReserveCore(c) ==
    \/ R_FindSeats(c)
    \/ R_Lock(c)
    \/ R_Stamp(c)
    \/ R_Insert(c)
    \/ R_Publish(c)

\* the steps only a call with an idempotency key takes
ReserveIdem(c) ==
    \/ R_IdemGet(c)
    \/ R_Poll(c)
    \/ R_IdemSet(c)
    \/ R_IdemReGet(c)
    \/ R_SaveIdem(c)
    \/ R_CatchIdem(c)

\* infrastructure errors after the locks were taken, and their compensation
ReserveFault(c) ==
    \/ R_InsertFail(c)
    \/ R_PublishFail(c)
    \/ R_CatchLocks(c)

\* ======================================================== Confirm-Payment
\* ConfirmPaymentAction.execute and its helpers

CDone(k, kind) ==
    [CIdle EXCEPT !.pc = "done", !.rid = k.rid, !.fresh = k.fresh, !.out = kind]

\* const now = new Date(), then the findUnique is issued
C_Start(c, rids) ==
    /\ cc[c].pc = "idle"
    /\ \E rid \in rids :
          cc' = [cc EXCEPT ![c] =
                    [CIdle EXCEPT !.pc = "find", !.rid = rid, !.now = clock,
                                  !.fresh = /\ rid \in DOMAIN res
                                            /\ res[rid].status = "PENDING"
                                            /\ clock <= res[rid].expiresAt]]
    /\ UNCHANGED <<clock, seatStatus, res, sales, seatLock, idem, leader, rc, rp, ev, view, mq>>

\* expiredReservationsCleanup: now > reservation.expiresAt
IsExpiredForPayment(row, now) == now > row.expiresAt

\* a lookup that checks only that the reservation exists
C_FindNoPrecheck(c) ==
    LET k == cc[c]
    IN  /\ k.pc = "find"
        /\ cc' = [cc EXCEPT ![c] =
                    IF k.rid \notin DOMAIN res THEN CDone(k, "NotFound")
                    ELSE [k EXCEPT !.pc = "tx"]]
        /\ UNCHANGED <<clock, seatStatus, res, sales, seatLock, idem, leader, rc, rp, ev, view, mq>>

\* findUnique + ensureReservationIsPayable (its own now = new Date())
C_Find(c) ==
    LET k == cc[c]
    IN  /\ k.pc = "find"
        /\ cc' = [cc EXCEPT ![c] =
                    IF k.rid \notin DOMAIN res THEN CDone(k, "NotFound")
                    ELSE IF res[k.rid].status = "CONFIRMED" THEN CDone(k, "Conflict")
                    ELSE IF res[k.rid].status = "CANCELLED" THEN CDone(k, "BadRequest")
                    ELSE IF IsExpiredForPayment(res[k.rid], clock) THEN [k EXCEPT !.pc = "cancel"]
                    ELSE [k EXCEPT !.pc = "tx"]]
        /\ UNCHANGED <<clock, seatStatus, res, sales, seatLock, idem, leader, rc, rp, ev, view, mq>>

\* the expired branch without its update
CancelNothing(row) == row

\* expiredReservationsCleanup: reservation.update({where: {id}, data: CANCELLED})
CancelExpiredOnPay(row) ==
    [row EXCEPT !.status = "CANCELLED",
                !.by = IF row.status = "CANCELLED" THEN row.by ELSE "pay"]

C_Cancel(c) ==
    LET k == cc[c]
    IN  /\ k.pc = "cancel"
        /\ res' = [res EXCEPT ![k.rid] = CancelExpiredOnPay(res[k.rid])]
        /\ cc' = [cc EXCEPT ![c] = CDone(k, "BadRequest")]
        /\ UNCHANGED <<clock, seatStatus, sales, seatLock, idem, leader, rc, rp, ev, view, mq>>

\* confirmReservation: updateMany where id, status = PENDING, expiresAt >= now
CanConfirm(row, now) == row.status = "PENDING" /\ row.expiresAt >= now

\* the seat update without its status condition
CanSellAlways(status) == TRUE

\* updateSeatsToSold: updateMany where id = seatId, status = AVAILABLE
CanSell(status) == status = "AVAILABLE"

\* upsertSaleRecord: sale.upsert keyed on the unique reservationId, update: {}
UpsertSale(s, rid, amount) ==
    IF \E x \in s : x.reservationId = rid THEN s
    ELSE s \cup {[reservationId |-> rid, amount |-> amount]}

\* checkReservationStatusForUpdate, then the ConflictException that follows it
TxRejection(row) == IF row.status = "CANCELLED" THEN "BadRequest" ELSE "Conflict"

\* a transaction that, finding the reservation already CONFIRMED, returns it
\* as confirmed now, so that the caller publishes again
C_TxPublishTwice(c) ==
    LET k == cc[c]
        row == res[k.rid]
        s == row.seatId
    IN  /\ k.pc = "tx"
        /\ IF ~CanConfirm(row, k.now)
           THEN /\ cc' = [cc EXCEPT ![c] =
                            IF row.status = "CONFIRMED" THEN [k EXCEPT !.pc = "publish"]
                            ELSE CDone(k, TxRejection(row))]
                /\ UNCHANGED <<res, seatStatus, sales>>
           ELSE IF ~CanSell(seatStatus[s])
           THEN /\ cc' = [cc EXCEPT ![c] = CDone(k, "Conflict")]
                /\ UNCHANGED <<res, seatStatus, sales>>
           ELSE /\ res' = [res EXCEPT ![k.rid].status = "CONFIRMED"]
                /\ seatStatus' = [seatStatus EXCEPT ![s] = "SOLD"]
                /\ sales' = UpsertSale(sales, k.rid, Price)
                /\ cc' = [cc EXCEPT ![c] = [k EXCEPT !.pc = "publish"]]
        /\ UNCHANGED <<clock, seatLock, idem, leader, rc, rp, ev, view, mq>>

\* a call that goes on to publish although its transaction was rolled back
C_TxRejectedPublishes(c) ==
    LET k == cc[c]
        row == res[k.rid]
        s == row.seatId
    IN  /\ k.pc = "tx"
        /\ IF ~CanConfirm(row, k.now) \/ ~CanSell(seatStatus[s])
           THEN /\ cc' = [cc EXCEPT ![c] = [k EXCEPT !.pc = "publish"]]
                /\ UNCHANGED <<res, seatStatus, sales>>
           ELSE /\ res' = [res EXCEPT ![k.rid].status = "CONFIRMED"]
                /\ seatStatus' = [seatStatus EXCEPT ![s] = "SOLD"]
                /\ sales' = UpsertSale(sales, k.rid, Price)
                /\ cc' = [cc EXCEPT ![c] = [k EXCEPT !.pc = "publish"]]
        /\ UNCHANGED <<clock, seatLock, idem, leader, rc, rp, ev, view, mq>>

\* a confirmation whose reservation update is committed before the seat check,
\* so that a refused seat update leaves it in place
C_TxNoRollback(c) ==
    LET k == cc[c]
        row == res[k.rid]
        s == row.seatId
    IN  /\ k.pc = "tx"
        /\ IF ~CanConfirm(row, k.now)
           THEN /\ cc' = [cc EXCEPT ![c] = CDone(k, TxRejection(row))]
                /\ UNCHANGED <<res, seatStatus, sales>>
           ELSE IF ~CanSell(seatStatus[s])
           THEN /\ cc' = [cc EXCEPT ![c] = CDone(k, "Conflict")]
                /\ res' = [res EXCEPT ![k.rid].status = "CONFIRMED"]
                /\ UNCHANGED <<seatStatus, sales>>
           ELSE /\ res' = [res EXCEPT ![k.rid].status = "CONFIRMED"]
                /\ seatStatus' = [seatStatus EXCEPT ![s] = "SOLD"]
                /\ sales' = UpsertSale(sales, k.rid, Price)
                /\ cc' = [cc EXCEPT ![c] = [k EXCEPT !.pc = "publish"]]
        /\ UNCHANGED <<clock, seatLock, idem, leader, rc, rp, ev, view, mq>>

\* prisma.$transaction: conditional confirm, conditional seat sale, sale upsert.
\* The row locks of the two updateMany are held until commit, so the transaction
\* takes effect at one point; a throw inside it rolls every write back.
C_Tx(c) ==
    LET k == cc[c]
        row == res[k.rid]
        s == row.seatId
    IN  /\ k.pc = "tx"
        /\ IF ~CanConfirm(row, k.now)
           THEN /\ cc' = [cc EXCEPT ![c] = CDone(k, TxRejection(row))]
                /\ UNCHANGED <<res, seatStatus, sales>>
           ELSE IF ~CanSell(seatStatus[s])
           THEN /\ cc' = [cc EXCEPT ![c] = CDone(k, "Conflict")]
                /\ UNCHANGED <<res, seatStatus, sales>>
           ELSE /\ res' = [res EXCEPT ![k.rid].status = "CONFIRMED"]
                /\ seatStatus' = [seatStatus EXCEPT ![s] = "SOLD"]
                /\ sales' = UpsertSale(sales, k.rid, Price)
                /\ cc' = [cc EXCEPT ![c] = [k EXCEPT !.pc = "publish"]]
        /\ UNCHANGED <<clock, seatLock, idem, leader, rc, rp, ev, view, mq>>

\* sendEventPaymentConfirmed (awaited)
C_Publish(c) ==
    LET k == cc[c]
    IN  /\ k.pc = "publish"
        /\ ev' = Publish(ev, "payment.confirmed", {k.rid})
        /\ cc' = [cc EXCEPT ![c] = [k EXCEPT !.pc = "delLock"]]
        /\ UNCHANGED <<clock, seatStatus, res, sales, seatLock, idem, leader, rc, rp, view, mq>>

\* a success response that leaves the seat lock where it is
C_KeepLock(c) ==
    LET k == cc[c]
    IN  /\ k.pc = "delLock"
        /\ cc' = [cc EXCEPT ![c] = CDone(k, "ok")]
        /\ UNCHANGED <<clock, seatStatus, res, sales, seatLock, idem, leader, rc, rp, ev, view, mq>>

\* redis.del(`lock:seat:${reservation.seatId}`), then the success response
C_DelLock(c) ==
    LET k == cc[c]
    IN  /\ k.pc = "delLock"
        /\ seatLock' = [seatLock EXCEPT ![res[k.rid].seatId] = NoKey]
        /\ cc' = [cc EXCEPT ![c] = CDone(k, "ok")]
        /\ UNCHANGED <<clock, seatStatus, res, sales, idem, leader, rc, rp, ev, view, mq>>

\* redis.del rejects (the coordination store is unreachable): the await throws
\* out of execute, after the transaction has committed
C_DelLockFail(c) ==
    LET k == cc[c]
    IN  /\ k.pc = "delLock"
        /\ cc' = [cc EXCEPT ![c] = CDone(k, "Internal")]
        /\ UNCHANGED <<clock, seatStatus, res, sales, seatLock, idem, leader, rc, rp, ev, view, mq>>

ConfirmStep(c) ==
    \/ C_Find(c)
    \/ C_Cancel(c)
    \/ C_Tx(c)
    \/ C_Publish(c)
    \/ C_DelLock(c)

\* ================================================================= Reaper
\* ReservationsCleanupService.handleCron (batch revision), one tick per replica
\* at a time; the random token of a tick is the replica's id


\* redis.set(lockKey, token, 'PX', 4500, 'NX'); const now = new Date()
P_Acquire(p) ==
    /\ rp[p].pc = "idle"
    /\ leader = 0
    /\ leader' = p
    /\ rp' = [rp EXCEPT ![p] = [PIdle EXCEPT !.pc = "find", !.now = clock]]
    /\ UNCHANGED <<clock, seatStatus, res, sales, seatLock, idem, rc, cc, ev, view, mq>>

\* findMany where status = PENDING and expiresAt < now
ExpiredPending(rows, now) ==
    {i \in DOMAIN rows : rows[i].status = "PENDING" /\ rows[i].expiresAt < now}

\* a tick that returns before the try block is entered when nothing is found
P_FindReturnsEarly(p) ==
    LET q == rp[p]
        found == ExpiredPending(res, q.now)
    IN  /\ q.pc = "find"
        /\ rp' = [rp EXCEPT ![p] =
                    IF found = {} THEN PIdle
                    ELSE [q EXCEPT !.pc = "cancel", !.found = found]]
        /\ UNCHANGED <<clock, seatStatus, res, sales, seatLock, idem, leader, rc, cc, ev, view, mq>>

P_Find(p) ==
    LET q == rp[p]
        found == ExpiredPending(res, q.now)
    IN  /\ q.pc = "find"
        /\ rp' = [rp EXCEPT ![p] =
                    IF found = {} THEN [q EXCEPT !.pc = "release"]
                    ELSE [q EXCEPT !.pc = "cancel", !.found = found]]
        /\ UNCHANGED <<clock, seatStatus, res, sales, seatLock, idem, leader, rc, cc, ev, view, mq>>

\* updateMany where id in reservationIds and status = PENDING: CANCELLED
CancelRows(rows, ids) ==
    [i \in DOMAIN rows |->
        IF i \in ids /\ rows[i].status = "PENDING"
        THEN [rows[i] EXCEPT !.status = "CANCELLED", !.by = "reaper"] ELSE rows[i]]

\* a cancellation that marks the seats of the found reservations LOCKED
P_CancelLocking(p) ==
    LET q == rp[p]
        count == Cardinality({i \in q.found : res[i].status = "PENDING"})
        seats == {res[i].seatId : i \in q.found}
    IN  /\ q.pc = "cancel"
        /\ res' = CancelRows(res, q.found)
        /\ seatStatus' = [s \in Seats |-> IF s \in seats THEN "LOCKED" ELSE seatStatus[s]]
        /\ rp' = [rp EXCEPT ![p] =
                    IF count = 0 THEN [q EXCEPT !.pc = "release", !.found = {}]
                    ELSE [q EXCEPT !.pc = "delLocks"]]
        /\ UNCHANGED <<clock, sales, seatLock, idem, leader, rc, cc, ev, view, mq>>

\* a cancellation that also hands the seats of the found reservations back
P_CancelReleasing(p) ==
    LET q == rp[p]
        count == Cardinality({i \in q.found : res[i].status = "PENDING"})
        seats == {res[i].seatId : i \in q.found}
    IN  /\ q.pc = "cancel"
        /\ res' = CancelRows(res, q.found)
        /\ seatStatus' = [s \in Seats |-> IF s \in seats THEN "AVAILABLE" ELSE seatStatus[s]]
        /\ rp' = [rp EXCEPT ![p] =
                    IF count = 0 THEN [q EXCEPT !.pc = "release", !.found = {}]
                    ELSE [q EXCEPT !.pc = "delLocks"]]
        /\ UNCHANGED <<clock, sales, seatLock, idem, leader, rc, cc, ev, view, mq>>

P_Cancel(p) ==
    LET q == rp[p]
        count == Cardinality({i \in q.found : res[i].status = "PENDING"})
    IN  /\ q.pc = "cancel"
        /\ res' = CancelRows(res, q.found)
        /\ rp' = [rp EXCEPT ![p] =
                    IF count = 0 THEN [q EXCEPT !.pc = "release", !.found = {}]
                    ELSE [q EXCEPT !.pc = "delLocks"]]
        /\ UNCHANGED <<clock, seatStatus, sales, seatLock, idem, leader, rc, cc, ev, view, mq>>

\* redis.del(seatLockKeys), then reservation.expired and seat.released for
\* every reservation that was found
P_DelLocks(p) ==
    LET q == rp[p]
        seats == {res[i].seatId : i \in q.found}
    IN  /\ q.pc = "delLocks"
        /\ seatLock' = [s \in Seats |-> IF s \in seats THEN NoKey ELSE seatLock[s]]
        /\ ev' = Publish(Publish(ev, "reservation.expired", q.found), "seat.released", q.found)
        /\ rp' = [rp EXCEPT ![p] = [q EXCEPT !.pc = "release", !.found = {}]]
        /\ UNCHANGED <<clock, seatStatus, res, sales, idem, leader, rc, cc, view, mq>>

\* a release that deletes the key whatever it holds
P_ReleaseAlways(p) ==
    LET q == rp[p]
    IN  /\ q.pc = "release"
        /\ leader' = 0
        /\ rp' = [rp EXCEPT ![p] = PIdle]
        /\ UNCHANGED <<clock, seatStatus, res, sales, seatLock, idem, rc, cc, ev, view, mq>>

\* finally: releaseLock, the compare-and-delete script
P_Release(p) ==
    LET q == rp[p]
    IN  /\ q.pc = "release"
        /\ leader' = IF leader = p THEN 0 ELSE leader
        /\ rp' = [rp EXCEPT ![p] = PIdle]
        /\ UNCHANGED <<clock, seatStatus, res, sales, seatLock, idem, rc, cc, ev, view, mq>>

\* a leader lock that outlives its holder: no PX deadline
LeaderStays == UNCHANGED vars

\* the replica's process dies inside a tick, whatever it holds left behind
P_Crash(p) ==
    /\ rp[p].pc \notin {"idle", "crashed"}
    /\ rp' = [rp EXCEPT ![p] = [rp[p] EXCEPT !.pc = "crashed"]]
    /\ UNCHANGED <<clock, seatStatus, res, sales, seatLock, idem, leader, rc, cc, ev, view, mq>>

\* the leader lock's PX 4500 runs out
LeaderExpire ==
    /\ leader # 0
    /\ leader' = 0
    /\ UNCHANGED <<clock, seatStatus, res, sales, seatLock, idem, rc, cc, rp, ev, view, mq>>

ReaperStep(p) ==
    \/ P_Acquire(p)
    \/ P_Find(p)
    \/ P_Cancel(p)
    \/ P_DelLocks(p)
    \/ P_Release(p)

\* redis.set ... 'NX' answers null: another tick holds the leader lock
P_Refused(p) ==
    /\ rp[p].pc = "idle"
    /\ leader # 0
    /\ rp' = [rp EXCEPT ![p] = [PIdle EXCEPT !.pc = "refused"]]
    /\ UNCHANGED <<clock, seatStatus, res, sales, seatLock, idem, leader, rc, cc, ev, view, mq>>

\* if (!acquired) return
P_Return(p) ==
    /\ rp[p].pc = "refused"
    /\ rp' = [rp EXCEPT ![p] = PIdle]
    /\ UNCHANGED <<clock, seatStatus, res, sales, seatLock, idem, leader, rc, cc, ev, view, mq>>

\* findMany, updateMany or redis.del(seatLockKeys) throws inside the try
\* block: nothing is written and control passes to finally
P_Throw(p) ==
    /\ rp[p].pc \in {"find", "cancel", "delLocks"}
    /\ rp' = [rp EXCEPT ![p] = [rp[p] EXCEPT !.pc = "release"]]
    /\ UNCHANGED <<clock, seatStatus, res, sales, seatLock, idem, leader, rc, cc, ev, view, mq>>

\* the redis.eval of releaseLock throws: the key is left to its PX deadline
P_ReleaseFail(p) ==
    /\ rp[p].pc = "release"
    /\ rp' = [rp EXCEPT ![p] = PIdle]
    /\ UNCHANGED <<clock, seatStatus, res, sales, seatLock, idem, leader, rc, cc, ev, view, mq>>

\* ============================================================== Read path
\* SessionsService.findOne

\* session.seats as findUnique returns them: seat ids are numbered in row order
SessionSeats(status) == [i \in 1..Cardinality(Seats) |-> [id |-> i, status |-> status[i]]]

RECURSIVE Filter(_, _)
Filter(seats, wanted) ==
    IF seats = <<>> THEN <<>>
    ELSE IF Head(seats).status = wanted THEN <<Head(seats)>> \o Filter(Tail(seats), wanted)
    ELSE Filter(Tail(seats), wanted)

\* session.seats.filter(s => s.status === AVAILABLE)
AvailableSeats(seats) == Filter(seats, "AVAILABLE")

\* redis.mget(keys): one value or null per key, in the order of the keys
Mget(keys, lock) == [i \in DOMAIN keys |-> lock[keys[i]].val]

\* locks.forEach((lockValue, index) => lockedSeatIds.add(availableSeats[index].id))
LockedSeatIds(availableSeats, locks) ==
    {availableSeats[index].id : index \in {i \in DOMAIN locks : locks[i] # "nil"}}

\* a read path that returns the stored statuses as they are
StoredStatus(seats, lock) == seats

\* mget over the AVAILABLE seats' keys, then the map that shows a seat LOCKED
RealTimeStatus(seats, lock) ==
    LET availableSeats == AvailableSeats(seats)
        keys == [i \in DOMAIN availableSeats |-> availableSeats[i].id]
        lockedSeatIds == LockedSeatIds(availableSeats, Mget(keys, lock))
    IN  [i \in DOMAIN seats |->
            IF seats[i].status = "AVAILABLE" /\ seats[i].id \in lockedSeatIds
            THEN [seats[i] EXCEPT !.status = "LOCKED"]
            ELSE seats[i]]

\* prisma.session.findUnique with its seats; no AVAILABLE seat: returned as read
V_Find ==
    LET seats == SessionSeats(seatStatus)
    IN  /\ view.pc = "idle"
        /\ view' = [pc |-> IF Len(AvailableSeats(seats)) > 0 THEN "mget" ELSE "done",
                    seats |-> seats]
        /\ UNCHANGED <<clock, seatStatus, res, sales, seatLock, idem, leader, rc, cc, rp, ev, mq>>

\* redis.mget and the response
V_Mget ==
    /\ view.pc = "mget"
    /\ view' = [pc |-> "done", seats |-> RealTimeStatus(view.seats, seatLock)]
    /\ UNCHANGED <<clock, seatStatus, res, sales, seatLock, idem, leader, rc, cc, rp, ev, mq>>

\* ======================================================= Retry handler
\* createExponentialRetryErrorHandler and the exchanges and queues it uses

\* the application publishes the message to cinema_events under the routing
\* key of its event type, without headers
M_Publish(m) ==
    /\ mq[m].at = "none"
    /\ \E rk \in EvTypes :
          mq' = [mq EXCEPT ![m].at = "queue", ![m].ex = "cinema_events", ![m].rk = rk]
    /\ UNCHANGED <<clock, seatStatus, res, sales, seatLock, idem, leader, rc, cc, rp, ev, view>>

\* the subscriber's handler returns: the message is acked by the subscription
M_Handled(m) ==
    /\ mq[m].at = "queue"
    /\ mq' = [mq EXCEPT ![m].at = "done"]
    /\ UNCHANGED <<clock, seatStatus, res, sales, seatLock, idem, leader, rc, cc, rp, ev, view>>

\* the subscriber's handler throws: the errorHandler is called with the message
M_Fail(m) ==
    /\ mq[m].at = "queue"
    /\ mq' = [mq EXCEPT ![m].at = "handler", ![m].fails = @ + 1]
    /\ UNCHANGED <<clock, seatStatus, res, sales, seatLock, idem, leader, rc, cc, rp, ev, view>>

\* Number.isFinite(Number(value)): Number(undefined) and Number of a text that
\* is no numeral are NaN; Number(true) is 1 and Number(false) is 0
IsFinite(h) == h.kind \in {"number", "boolean"}

\* toSafeNumber(value, fallback): Number(value) if finite, else the fallback
ToSafeNumber(h, fallback) == IF IsFinite(h) THEN h.n ELSE fallback

Min(a, b) == IF a <= b THEN a ELSE b

\* a delay that does not grow
DelayFixed(retryCount) == BaseDelayMs

\* Math.min(maxDelayMs, baseDelayMs * 2 ** retryCount)
DelayMs(retryCount) == Min(MaxDelayMs, BaseDelayMs * 2 ^ retryCount)

\* a budget test that lets one more retry through
ReachedMaxLate(retryCount) == retryCount > MaxRetries

\* if (retryCount >= options.maxRetries)
ReachedMax(retryCount) == retryCount >= MaxRetries

\* headers that go to the next hop with the x-retry-count they came with
HopSameCount(msg) ==
    [count |-> Num(ToSafeNumber(msg.count, 0)),
     origEx |-> IF msg.origEx = "none" THEN msg.ex ELSE msg.origEx,
     origRk |-> IF msg.origRk = "none" THEN msg.rk ELSE msg.origRk]

\* nextHeaders: x-retry-count + 1, and x-original-exchange and
\* x-original-routing-key kept if present (??), else taken from msg.fields
Hop(msg) ==
    [count |-> Num(ToSafeNumber(msg.count, 0) + 1),
     origEx |-> IF msg.origEx = "none" THEN msg.ex ELSE msg.origEx,
     origRk |-> IF msg.origRk = "none" THEN msg.rk ELSE msg.origRk]

\* the error handler: publish to cinema_dlq or to cinema_retry under the
\* delivery's routing key with the next headers, then ack the delivery (no
\* await in between)
M_Retry(m) ==
    LET retryCount == ToSafeNumber(mq[m].count, 0)
        next == Hop(mq[m])
        dead == ReachedMax(retryCount)
        pub == [ex |-> IF dead THEN "cinema_dlq" ELSE "cinema_retry", rk |-> mq[m].rk,
                count |-> next.count.n, origEx |-> next.origEx, origRk |-> next.origRk,
                expiration |-> IF dead THEN 0 ELSE DelayMs(retryCount)]
    IN  /\ mq[m].at = "handler"
        /\ mq' = [mq EXCEPT ![m] =
                    [@ EXCEPT !.at = IF dead THEN "dlq" ELSE "retry", !.ex = pub.ex,
                              !.count = next.count, !.origEx = next.origEx,
                              !.origRk = next.origRk, !.acks = @ + 1,
                              !.pubs = Append(@, pub)]]
        /\ UNCHANGED <<clock, seatStatus, res, sales, seatLock, idem, leader, rc, cc, rp, ev, view>>

\* cinema_retry_queue has no consumer: when the message's expiration is over it
\* is dead-lettered to cinema_events with its routing key and headers
M_DeadLetter(m) ==
    /\ mq[m].at = "retry"
    /\ mq' = [mq EXCEPT ![m].at = "queue", ![m].ex = "cinema_events"]
    /\ UNCHANGED <<clock, seatStatus, res, sales, seatLock, idem, leader, rc, cc, rp, ev, view>>

\* ------------------------------------------------------------------------
\* The whole engine on one contended seat: Reserve calls for seat 1 (the first
\* by user A, users being interchangeable), Confirm-Payment calls on any
\* existing reservation, reaper ticks of one replica (whose leader lock no
\* other replica contends for), time
Next ==
    \/ \E c \in RCalls : R_Start(c, IF c = 1 THEN {"A"} ELSE Users, {<<1>>}, {FALSE})
    \/ \E c \in RCalls : ReserveCore(c)
    \/ \E c \in CCalls : C_Start(c, DOMAIN res)
    \/ \E c \in CCalls : ConfirmStep(c)
    \/ ReaperStep(1)
    \/ Tick

Spec == Init /\ [][Next]_vars

\* ------------------------------------------------------------------------
\* Two Reserve calls racing inside one seat-lock TTL, without store errors
NextReserve ==
    \/ \E c \in RCalls : R_Start(c, Users, SeatLists, BOOLEAN)
    \/ \E c \in RCalls : ReserveCore(c)
    \/ \E c \in RCalls : R_LockRollback(c)
    \/ \E c \in RCalls : ReserveIdem(c)

SpecReserve == Init /\ [][NextReserve]_vars

\* ------------------------------------------------------------------------
\* The same calls when the database, the bus or the cache may reject a call
NextReserveFaults ==
    \/ NextReserve
    \/ \E c \in RCalls : ReserveFault(c)
    \/ \E c \in RCalls : R_SaveIdemFail(c)

SpecReserveFaults == Init /\ [][NextReserveFaults]_vars

\* ------------------------------------------------------------------------
\* The reaper on two replicas, of which replica 1 may die inside a tick and
\* replica 2 stays alive; Reserve call c takes seat c
NextReaper ==
    \/ \E c \in RCalls : R_Start(c, IF c = 1 THEN {"A"} ELSE {"B"}, {<<c>>}, {FALSE})
    \/ \E c \in RCalls : ReserveCore(c)
    \/ \E p \in Replicas : ReaperStep(p)
    \/ P_Crash(1)
    \/ LeaderExpire
    \/ Tick

SpecReaper == Init /\ [][NextReaper]_vars

\* the cron fires on the live replica again and again, and a key with a PX
\* deadline does expire
SpecReaperLive == SpecReaper /\ WF_vars(ReaperStep(2)) /\ WF_vars(LeaderExpire)

\* ------------------------------------------------------------------------
\* The reaper on two live replicas when the database or the lock store may
\* reject a call of a tick; Reserve call c takes seat c
NextReaperFaults ==
    \/ \E c \in RCalls : R_Start(c, IF c = 1 THEN {"A"} ELSE {"B"}, {<<c>>}, {FALSE})
    \/ \E c \in RCalls : ReserveCore(c)
    \/ \E p \in Replicas : ReaperStep(p)
    \/ \E p \in Replicas : P_Refused(p)
    \/ \E p \in Replicas : P_Return(p)
    \/ \E p \in Replicas : P_Throw(p)
    \/ \E p \in Replicas : P_ReleaseFail(p)
    \/ LeaderExpire
    \/ Tick

SpecReaperFaults == Init /\ [][NextReaperFaults]_vars

\* ------------------------------------------------------------------------
\* Confirm-Payment calls on the one reservation of a seat, or on an id that
\* names no reservation, with the reaper and time
NextConfirm ==
    \/ R_Start(1, {"A"}, {<<1>>}, {FALSE})
    \/ ReserveCore(1)
    \/ \E c \in CCalls : C_Start(c, 1..Cardinality(CCalls))
    \/ \E c \in CCalls : ConfirmStep(c)
    \/ ReaperStep(1)
    \/ Tick

SpecConfirm == Init /\ [][NextConfirm]_vars

\* ------------------------------------------------------------------------
\* The same calls when the coordination store may reject the lock deletion
NextConfirmFaults ==
    \/ NextConfirm
    \/ \E c \in CCalls : C_DelLockFail(c)

SpecConfirmFaults == Init /\ [][NextConfirmFaults]_vars

\* ------------------------------------------------------------------------
\* The read path over any stored seat statuses and any seat locks, which may
\* run out between its two reads
LockValues == {NoKey} \cup {Key(u, e) : u \in Users, e \in 1..MaxTime}

InitView ==
    /\ clock = 0
    /\ seatStatus \in [Seats -> {"AVAILABLE", "SOLD"}]
    /\ res = <<>>
    /\ sales = {}
    /\ seatLock \in [Seats -> LockValues]
    /\ idem = [u \in Users |-> NoIdem]
    /\ leader = 0
    /\ rc = [c \in RCalls |-> RIdle]
    /\ cc = [c \in CCalls |-> CIdle]
    /\ rp = [p \in Replicas |-> PIdle]
    /\ ev = [t \in EvTypes |-> <<>>]
    /\ view = VIdle
    /\ mq = [m \in Msgs |-> MIdle]

NextView ==
    \/ V_Find
    \/ V_Mget
    \/ Tick

SpecView == InitView /\ [][NextView]_vars

\* ------------------------------------------------------------------------
\* A Reserve call whose seat ids may name no seat of the session, or a seat
\* that the first call's reservation, once paid, has made SOLD
RequestIds == Seats \cup {Cardinality(Seats) + 1}

RequestLists ==
    {s \in UNION {[1..n -> RequestIds] : n \in 1..Cardinality(Seats)} :
        \A i, j \in DOMAIN s : i # j => s[i] # s[j]}

NextPrecheck ==
    \/ R_Start(1, {"A"}, {<<1>>}, {FALSE})
    \/ R_Start(2, {"B"}, RequestLists, {FALSE})
    \/ \E c \in RCalls : ReserveCore(c)
    \/ C_Start(1, DOMAIN res)
    \/ C_Find(1)
    \/ C_Tx(1)
    \/ C_Publish(1)
    \/ C_DelLock(1)

SpecPrecheck == Init /\ [][NextPrecheck]_vars

\* ------------------------------------------------------------------------
\* Messages whose consumer may fail on any delivery, under the retry handler
NextRetry ==
    \/ \E m \in Msgs : M_Publish(m)
    \/ \E m \in Msgs : M_Handled(m)
    \/ \E m \in Msgs : M_Fail(m)
    \/ \E m \in Msgs : M_Retry(m)
    \/ \E m \in Msgs : M_DeadLetter(m)

SpecRetry == Init /\ [][NextRetry]_vars

\* ------------------------------------------------------------------------
\* A Confirm-Payment call racing the reaper while two reservations, of seats 1
\* and 2, run out together
NextReaperPay ==
    \/ \E c \in RCalls : R_Start(c, IF c = 1 THEN {"A"} ELSE {"B"}, {<<c>>}, {FALSE})
    \/ \E c \in RCalls : ReserveCore(c)
    \/ C_Start(1, DOMAIN res)
    \/ ConfirmStep(1)
    \/ ReaperStep(1)
    \/ Tick

SpecReaperPay == Init /\ [][NextReaperPay]_vars

\* the cron keeps firing on the replica and a Confirm-Payment call that has
\* started runs to its end
SpecReaperPayLive == SpecReaperPay /\ WF_vars(ReaperStep(1)) /\ WF_vars(ConfirmStep(1))

\* ------------------------------------------------------------------------
\* Every path that touches a seat: Reserve, Confirm-Payment, the reaper and the
\* read path, with time
NextFrame ==
    \/ NextReaperPay
    \/ V_Find
    \/ V_Mget

SpecFrame == Init /\ [][NextFrame]_vars

\* ------------------------------------------------------------------------
\* Deliveries that fail, of messages that arrive with any x-retry-count header
HeaderInputs ==
    {NoHeader, Text, Bool(TRUE), Bool(FALSE)} \cup {Num(n) : n \in 0..MaxRetries + 1}

InitHeaders ==
    /\ clock = 0
    /\ seatStatus = [s \in Seats |-> "AVAILABLE"]
    /\ res = <<>>
    /\ sales = {}
    /\ seatLock = [s \in Seats |-> NoKey]
    /\ idem = [u \in Users |-> NoIdem]
    /\ leader = 0
    /\ rc = [c \in RCalls |-> RIdle]
    /\ cc = [c \in CCalls |-> CIdle]
    /\ rp = [p \in Replicas |-> PIdle]
    /\ ev = [t \in EvTypes |-> <<>>]
    /\ view = VIdle
    /\ mq \in [Msgs -> {[MIdle EXCEPT !.at = "queue", !.ex = "cinema_events",
                                        !.rk = "payment.confirmed", !.count = h] :
                            h \in HeaderInputs}]

NextHeaders ==
    \/ \E m \in Msgs : M_Handled(m)
    \/ \E m \in Msgs : M_Fail(m)
    \/ \E m \in Msgs : M_Retry(m)
    \/ \E m \in Msgs : M_DeadLetter(m)

SpecHeaders == InitHeaders /\ [][NextHeaders]_vars

\* ========================================================================
\* Properties

RowsOfSeat(s) == {i \in DOMAIN res : res[i].seatId = s}
Confirmed(s) == {i \in RowsOfSeat(s) : res[i].status = "CONFIRMED"}
Pending(s) == {i \in RowsOfSeat(s) : res[i].status = "PENDING"}
SalesOf(i) == {x \in sales : x.reservationId = i}
Published(type, i) == ev[type][i]
RDoneCalls == {c \in RCalls : rc[c].pc = "done"}
CDoneCalls == {c \in CCalls : cc[c].pc = "done"}

\* C1: no seat is sold twice: in every reachable state each seat has at most
\* one reservation with status CONFIRMED
C1_NoSeatSoldTwice == \A s \in Seats : Cardinality(Confirmed(s)) <= 1

\* a second reservation of a sold seat was refused by the transaction's seat check
C1_Witness ==
    \E c \in CDoneCalls :
        /\ cc[c].out = "Conflict"
        /\ res[cc[c].rid].status = "PENDING"
        /\ \E j \in Confirmed(res[cc[c].rid].seatId) : j # cc[c].rid

\* C2: a reservation that is CONFIRMED or CANCELLED never changes status again
C2_TerminalStates ==
    [][\A i \in DOMAIN res :
          res[i].status \in {"CONFIRMED", "CANCELLED"} => res'[i].status = res[i].status]_vars

\* C3: a Sale row for r exists iff r is CONFIRMED, there is exactly one per
\* CONFIRMED reservation, and its amount is the session price
C3_SaleIffConfirmed ==
    \A i \in DOMAIN res :
        /\ (SalesOf(i) # {}) <=> (res[i].status = "CONFIRMED")
        /\ Cardinality(SalesOf(i)) <= 1
        /\ \A x \in SalesOf(i) : x.amount = Price

\* the two calls of a race: both returned, issued by different users for the
\* same seat list
RacePair(c1, c2) ==
    /\ c1 # c2
    /\ c1 \in RDoneCalls /\ c2 \in RDoneCalls
    /\ rc[c1].user # rc[c2].user

Won(c, n) == rc[c].out = "ok" /\ Len(rc[c].body.reservationIds) = n

\* C4: of two concurrent Reserve calls by different users for the same
\* AVAILABLE, unlocked seat, exactly one succeeds (with one reservation) and the
\* other fails with Conflict; exactly one PENDING reservation exists for the
\* seat and the seat lock holds the winner's userId
C4_DoubleBookingRace ==
    \A c1, c2 \in RCalls : \A s \in Seats :
        (RacePair(c1, c2) /\ rc[c1].seats = <<s>> /\ rc[c2].seats = <<s>>) =>
            \E w, l \in {c1, c2} :
                /\ w # l
                /\ Won(w, 1)
                /\ rc[l].out = "Conflict"
                /\ Cardinality(Pending(s)) = 1
                /\ Cardinality(RowsOfSeat(s)) = 1
                /\ seatLock[s].val = rc[w].user

C4_Witness ==
    \E c1, c2 \in RCalls : \E s \in Seats :
        /\ RacePair(c1, c2) /\ rc[c1].seats = <<s>> /\ rc[c2].seats = <<s>>
        /\ rc[c1].out = "ok" /\ rc[c2].out = "Conflict"

\* C5: two Reserve calls with the same (userId, idempotencyKey) return equal
\* response bodies, and no caller is handed the processing marker
C5_SameResponse ==
    \A c1, c2 \in RDoneCalls :
        (rc[c1].key /\ rc[c2].key /\ rc[c1].user = rc[c2].user
            /\ rc[c1].out = "ok" /\ rc[c2].out = "ok") =>
            /\ rc[c1].body = rc[c2].body
            /\ rc[c1].body.status # "processing"

\* C6: calls with the same (userId, idempotencyKey) create at most one set of
\* Reservation rows, and no reservation.created event is published twice
C6_WorkOnce ==
    /\ \A c1, c2 \in RCalls :
          (c1 # c2 /\ rc[c1].key /\ rc[c2].key /\ rc[c1].user = rc[c2].user
              /\ rc[c1].seats = rc[c2].seats) =>
              ~(rc[c1].rids # <<>> /\ rc[c2].rids # <<>>)
    /\ \A i \in DOMAIN res : Published("reservation.created", i) <= 1

\* two Confirm-Payment calls on one reservation that was PENDING and unexpired
\* when each was issued, both returned
ConfirmPair(c1, c2) ==
    /\ c1 # c2
    /\ c1 \in CDoneCalls /\ c2 \in CDoneCalls
    /\ cc[c1].rid = cc[c2].rid
    /\ cc[c1].fresh /\ cc[c2].fresh

ConfirmedOnce(c1, c2) ==
    /\ Published("payment.confirmed", cc[c1].rid) = 1
    /\ \/ cc[c1].out = "ok" /\ cc[c2].out \in {"ok", "Conflict"}
       \/ cc[c2].out = "ok" /\ cc[c1].out \in {"ok", "Conflict"}
    /\ res[cc[c1].rid].status = "CONFIRMED"

C8_MultiSeatWinner ==
    \A c1, c2 \in RCalls :
        (RacePair(c1, c2) /\ Range(rc[c1].seats) = Seats /\ Range(rc[c2].seats) = Seats) =>
            \E w, l \in {c1, c2} :
                /\ w # l
                /\ Won(w, Cardinality(Seats))
                /\ rc[l].out = "Conflict"
                /\ \A s \in Seats : seatLock[s].val # rc[l].user

C8_Witness ==
    \E c1, c2 \in RCalls :
        /\ RacePair(c1, c2)
        /\ rc[c1].seats = <<2, 1>> /\ rc[c2].seats = <<1, 2>>
        /\ rc[c2].out = "Conflict"

\* the steps a Reserve call has left at most, by its position
StepsLeft(r) ==
    CASE r.pc = "done" -> 0
      [] r.pc = "catchLocks" -> 1
      [] r.pc = "idemReGet" -> 1
      [] r.pc = "catchIdem" -> 2
      [] r.pc = "lockRollback" -> 3
      [] r.pc = "saveIdem" -> 3
      [] r.pc = "publish" -> 4
      [] r.pc = "insert" -> 5
      [] r.pc = "stamp" -> 6
      [] r.pc = "lock" -> 6 + Len(r.seats) - r.idx
      [] r.pc = "findSeats" -> 7 + Len(r.seats)
      [] r.pc = "idemSet" -> 8 + Len(r.seats)
      [] r.pc = "poll" -> PollRounds - r.poll
      [] r.pc = "idemGet" -> PollRounds + 9 + Len(r.seats)
      [] OTHER -> PollRounds + 10 + Cardinality(Seats)

AnyReserveStep(c) == ReserveCore(c) \/ R_LockRollback(c) \/ ReserveIdem(c)

\* C9: every started Reserve call always has a step it can take on its own,
\* whatever locks the other calls hold (it never waits), and each of its steps
\* brings it closer to its return: it ends after a bounded number of steps,
\* the idempotency poll taking at most PollRounds of them
C9_DeadlockFree ==
    /\ [](\A c \in RCalls : rc[c].pc \notin {"idle", "done"} => ENABLED AnyReserveStep(c))
    /\ [][\A c \in RCalls : rc'[c] # rc[c] => StepsLeft(rc'[c]) < StepsLeft(rc[c])]_vars

\* two calls over overlapping seat sets: one has returned with Conflict while
\* the other still holds the locks
C9_Witness ==
    \E c1, c2 \in RCalls :
        /\ rc[c1].pc = "done" /\ rc[c1].out = "Conflict"
        /\ rc[c2].pc = "stamp"
        /\ Range(rc[c1].seats) \cap Range(rc[c2].seats) # {}

\* C10: a seat whose status is SOLD never returns to AVAILABLE
C10_SoldStaysSold ==
    [][\A s \in Seats : seatStatus[s] = "SOLD" => seatStatus'[s] = "SOLD"]_vars

\* the reaper is cancelling another reservation of a seat that is sold
C10_Witness ==
    /\ rp[1].pc = "delLocks"
    /\ \E i \in rp[1].found : seatStatus[res[i].seatId] = "SOLD"

\* reservation i is PENDING past its expiresAt / has been cancelled
Overdue(i) ==
    IF i \in DOMAIN res THEN res[i].status = "PENDING" /\ clock > res[i].expiresAt ELSE FALSE

Cancelled(i) == IF i \in DOMAIN res THEN res[i].status = "CANCELLED" ELSE FALSE

\* C11: with the reaper's cron firing on a live replica, every reservation that
\* is PENDING past its expiresAt eventually becomes CANCELLED, also when the
\* other replica died holding the leader lock
C11_ExpirationLiveness ==
    \A i \in 1..Cardinality(RCalls) :
        Overdue(i) ~> Cancelled(i)

\* replica 1 died holding the leader lock, and the reservation that was
\* PENDING past its expiresAt then has been cancelled by replica 2
C11_Witness ==
    /\ rp[1].pc = "crashed"
    /\ rp[2].pc = "delLocks"
    /\ \E i \in rp[2].found : res[i].by = "reaper"

\* C12: a reservation changes PENDING -> CONFIRMED only while its expiresAt is
\* not earlier than the current time
C12_NoConfirmAfterExpiry ==
    [][\A i \in DOMAIN res :
          (res[i].status = "PENDING" /\ res'[i].status = "CONFIRMED") =>
              clock <= res[i].expiresAt]_vars

\* the step of Confirm-Payment call c out of position pos
Leaves(c, pos) == cc[c].pc = pos /\ cc'[c] # cc[c]

\* C13: a Confirm-Payment call that reads a PENDING reservation whose expiresAt
\* is earlier than now takes the expired branch, and that branch fails with
\* BadRequest, leaves the reservation CANCELLED, writes no Sale, does not touch
\* the seat and publishes nothing
C13_PayAfterExpiry ==
    [][\A c \in CCalls :
          /\ (/\ Leaves(c, "find")
              /\ cc[c].rid \in DOMAIN res
              /\ res[cc[c].rid].status = "PENDING"
              /\ clock > res[cc[c].rid].expiresAt) => cc'[c].pc = "cancel"
          /\ Leaves(c, "cancel") =>
                /\ cc'[c].pc = "done" /\ cc'[c].out = "BadRequest"
                /\ res'[cc[c].rid].status = "CANCELLED"
                /\ sales' = sales /\ seatStatus' = seatStatus /\ ev' = ev]_vars

\* a call has failed with BadRequest on a reservation that no reaper tick
\* touched: the expired branch cancelled it; no Sale, no event, seat AVAILABLE
C13_Witness ==
    \E c \in CDoneCalls :
        /\ cc[c].out = "BadRequest"
        /\ res[cc[c].rid].by = "pay"
        /\ SalesOf(cc[c].rid) = {}
        /\ Published("payment.confirmed", cc[c].rid) = 0
        /\ seatStatus[res[cc[c].rid].seatId] = "AVAILABLE"

\* what the pre-check answers for the reservation a call names
Precheck(rid) ==
    IF rid \notin DOMAIN res THEN "NotFound"
    ELSE IF res[rid].status = "CONFIRMED" THEN "Conflict"
    ELSE IF res[rid].status = "CANCELLED" THEN "BadRequest"
    ELSE "payable"

C15_HappyPath ==
    \A c \in CDoneCalls :
        (/\ cc[c].fresh
         /\ \A c2 \in CCalls \ {c} : cc[c2].pc = "idle"
         /\ clock <= res[cc[c].rid].expiresAt) =>
            /\ cc[c].out = "ok"
            /\ res[cc[c].rid].status = "CONFIRMED"
            /\ seatStatus[res[cc[c].rid].seatId] = "SOLD"
            /\ Cardinality(SalesOf(cc[c].rid)) = 1
            /\ \A x \in SalesOf(cc[c].rid) : x.amount = Price
            /\ Published("payment.confirmed", cc[c].rid) = 1
            /\ seatLock[res[cc[c].rid].seatId] = NoKey

\* the call returned its success while the lock's TTL had not run out
C15_Witness ==
    \E c \in CDoneCalls :
        /\ cc[c].fresh /\ cc[c].out = "ok"
        /\ \A c2 \in CCalls \ {c} : cc[c2].pc = "idle"
        /\ clock = 0

\* C16: once the reaper has cancelled the expired reservation of a seat, the
\* seat's lock is absent while nobody reserves it again, and a Reserve of the
\* seat by a different user, issued with no other Reserve call running, succeeds
C16_Reclaim ==
    /\ \A c \in RDoneCalls : rc[c].reclaim => rc[c].out = "ok"
    /\ \A s \in Seats :
          (/\ \E i \in RowsOfSeat(s) : res[i].by = "reaper"
           /\ \A i \in RowsOfSeat(s) : res[i].status = "CANCELLED"
           /\ \A c \in RCalls : rc[c].pc \in {"idle", "done"}) =>
              seatLock[s] = NoKey

\* user B holds a new PENDING reservation of the seat that user A's reaped
\* reservation had
C16_Witness ==
    \E c \in RDoneCalls :
        /\ rc[c].reclaim /\ rc[c].out = "ok"
        /\ \E i, j \in RowsOfSeat(rc[c].seats[1]) :
              /\ res[i].by = "reaper" /\ res[j].status = "PENDING"
              /\ res[i].userId # res[j].userId

\* C17: reservation.expired and seat.released are published at most once per
\* reservation, and only for a reservation that a reaper tick has turned
\* from PENDING into CANCELLED
C17_ReaperEventsOnce ==
    \A i \in DOMAIN res : \A type \in {"reservation.expired", "seat.released"} :
        /\ Published(type, i) <= 1
        /\ Published(type, i) >= 1 => res[i].by = "reaper"

\* the lock of seat s belongs to a PENDING reservation of its holder, or is
\* left over from a reservation of the seat that is CONFIRMED or CANCELLED
LockAccounted(s) ==
    \/ \E i \in Pending(s) : res[i].userId = seatLock[s].val
    \/ \E i \in RowsOfSeat(s) : res[i].status \in {"CONFIRMED", "CANCELLED"}

\* a Reserve call of the lock's holder is between taking the lock of seat s
\* and either inserting its reservation or giving the lock back
LockInFlight(s) ==
    \E c \in RCalls :
        /\ rc[c].user = seatLock[s].val
        /\ s \in Range(rc[c].seats)
        /\ rc[c].pc \in {"lock", "lockRollback", "stamp", "insert", "catchIdem", "catchLocks"}

\* C18 as stated: every seat lock present, with value u, has a PENDING
\* reservation of u for the seat, or is the leftover of a reservation of the
\* seat just CONFIRMED or CANCELLED
C18_LockHasReservation_Original ==
    \A s \in Seats : seatLock[s] # NoKey => LockAccounted(s)

\* C18 amended: the same, or a Reserve call of u is still between acquiring the
\* lock and inserting its reservation (or releasing the lock on failure)
C18_LockHasReservation ==
    \A s \in Seats : seatLock[s] # NoKey => (LockAccounted(s) \/ LockInFlight(s))

\* a failed call has given its locks back, another holds one it has not yet
\* a reservation for
C18_Witness ==
    \E c1, c2 \in RCalls :
        /\ rc[c1].pc = "done" /\ rc[c1].out = "Internal" /\ rc[c1].rids = <<>>
        /\ \A s \in Range(rc[c1].seats) : seatLock[s].val # rc[c1].user
        /\ rc[c2].pc = "insert"
        /\ \E s \in Range(rc[c2].seats) : seatLock[s].val = rc[c2].user /\ RowsOfSeat(s) = {}

\* the steps in which the lock of seat s is released on behalf of user u
ReleasedBy(s, u) ==
    \/ \E c \in CCalls :
          /\ Leaves(c, "delLock")
          /\ res[cc[c].rid].seatId = s /\ res[cc[c].rid].userId = u
    \/ \E c \in RCalls :
          /\ rc[c].pc \in {"lockRollback", "catchLocks"} /\ rc'[c] # rc[c]
          /\ rc[c].user = u
    \/ \E p \in Replicas :
          /\ rp[p].pc = "delLocks" /\ rp'[p] # rp[p]
          /\ \E i \in rp[p].found : res[i].seatId = s /\ res[i].userId = u

\* C20: a seat lock is deleted (other than by its TTL) only by a release made
\* for the user whose id the key holds
C20_OwnerCheckedRelease ==
    [][\A s \in Seats :
          (seatLock[s] # NoKey /\ seatLock'[s] = NoKey /\ clock' = clock) =>
              ReleasedBy(s, seatLock[s].val)]_vars

\* what the read path is to show for seat s
Shown(s) ==
    IF seatStatus[s] = "AVAILABLE" /\ seatLock[s] # NoKey THEN "LOCKED" ELSE seatStatus[s]

\* C19: the read path returns every seat of the session under its own id, LOCKED
\* iff its stored status is AVAILABLE and its lock key exists when the keys are
\* read, AVAILABLE when stored AVAILABLE without a key, SOLD when stored SOLD
C19_StatusView ==
    [][(view' # view /\ view'.pc = "done") =>
          /\ Len(view'.seats) = Cardinality(Seats)
          /\ \A s \in Seats :
                view'.seats[s].id = s /\ view'.seats[s].status = Shown(s)]_vars

\* the first seat is SOLD and holds a key, the second is shown LOCKED: the one
\* value mget returned belongs to the second seat of the session
C19_Witness ==
    /\ view.pc = "done"
    /\ seatStatus[1] = "SOLD" /\ seatLock[1] # NoKey
    /\ view.seats[2].status = "LOCKED"

\* a step of the lock loop of call c, the seat it tries, and whether the SET
\* returned OK (the loop goes on, or lockSeats returns)
LockStep(c) == rc[c].pc = "lock" /\ rc'[c] # rc[c]
LockTarget(c) == Sort(rc[c].seats)[rc[c].idx + 1]
GotLock(c) == rc'[c].pc = "stamp" \/ (rc'[c].pc = "lock" /\ rc'[c].idx = rc[c].idx + 1)

\* the seats whose lock call c has taken and not given back
Holding(c) ==
    IF rc[c].pc \in {"lock", "lockRollback"}
    THEN {Sort(rc[c].seats)[i] : i \in 1..rc[c].idx}
    ELSE Range(rc[c].acq)

\* C21 as stated: acquire returns true iff after the call the key is held with
\* the caller's owner value, and returns false only when the key is held by a
\* different owner
C21_Acquire_Original ==
    [][\A c \in RCalls :
          LockStep(c) =>
              /\ GotLock(c) <=> (seatLock'[LockTarget(c)].val = rc[c].user)
              /\ ~GotLock(c) => seatLock[LockTarget(c)].val \notin {"nil", rc[c].user}]_vars

\* C21: acquire returns true iff the key was absent, and then the key holds the
\* caller's owner value; it returns false only when the key is already held (by
\* another owner or by another call of the same owner) and leaves it as it is;
\* no two calls hold the same key at once
C21_Acquire ==
    /\ [](\A c1, c2 \in RCalls : c1 # c2 => Holding(c1) \cap Holding(c2) = {})
    /\ [][\A c \in RCalls :
             LockStep(c) =>
                 /\ GotLock(c) <=> (seatLock[LockTarget(c)] = NoKey)
                 /\ GotLock(c) => seatLock'[LockTarget(c)].val = rc[c].user
                 /\ ~GotLock(c) => seatLock[LockTarget(c)] # NoKey /\ seatLock' = seatLock]_vars

\* two calls of one user raced for a seat: one holds the lock, the other was
\* refused while the key held its own userId
C21_Witness ==
    \E c1, c2 \in RCalls : \E s \in Seats :
        /\ c1 # c2 /\ rc[c1].user = rc[c2].user
        /\ rc[c1].seats = <<s>> /\ rc[c2].seats = <<s>>
        /\ rc[c1].pc = "stamp" /\ rc[c2].pc = "done" /\ rc[c2].out = "Conflict"
        /\ seatLock[s].val = rc[c2].user

\* call c fails with the given error: it has returned it, or holds it while its
\* catch block deletes the idempotency marker
Fails(c, kind) ==
    \/ rc'[c].pc = "done" /\ rc'[c].out = kind
    \/ rc'[c].pc = "catchIdem" /\ rc'[c].err = kind

\* C22: a Reserve call that requests a seat id naming no seat fails with
\* NotFound, one that requests a seat that is not AVAILABLE fails with Conflict,
\* and in both cases the validation step ends the call's work: no seat lock is
\* tried or taken, no reservation is created and no event is published
C22_PrecheckNoEffects ==
    [][\A c \in RCalls :
          (rc[c].pc = "findSeats" /\ rc'[c] # rc[c]) =>
              LET ids == Range(rc[c].seats)
                  missing == ids \ Seats
                  taken == {s \in ids \cap Seats : seatStatus[s] # "AVAILABLE"}
              IN  /\ missing # {} => Fails(c, "NotFound")
                  /\ (missing = {} /\ taken # {}) => Fails(c, "Conflict")
                  /\ (missing # {} \/ taken # {}) =>
                        /\ rc'[c].pc # "lock" /\ rc'[c].acq = <<>> /\ rc'[c].rids = <<>>
                        /\ UNCHANGED <<seatLock, res, ev, seatStatus, sales>>]_vars

\* a call for an existing, free seat and an unknown seat id was refused with
\* NotFound, and the existing seat has no lock and no reservation
C22_Witness ==
    \E c \in RDoneCalls :
        /\ rc[c].out = "NotFound"
        /\ \E s \in Range(rc[c].seats) \cap Seats :
              seatLock[s] = NoKey /\ RowsOfSeat(s) = {}

\* the lock of seat s belongs to a call other than c: one that holds it in its
\* loop or its catch, or one that returned with reservations for it
HeldByOther(c, s) ==
    \E c2 \in RCalls \ {c} :
        \/ s \in Holding(c2)
        \/ rc[c2].pc = "done" /\ rc[c2].rids # <<>> /\ s \in Range(rc[c2].seats)

\* C23: when the lock of the k-th seat (in sorted order) is refused, the call
\* deletes the locks it took for the first k-1 seats, creates no reservation
\* and fails with Conflict; once it has returned, no lock of its seats is one
\* that it took
C23_AllOrNothingLocks ==
    /\ [](\A c \in RDoneCalls :
             rc[c].out = "Conflict" =>
                 /\ rc[c].rids = <<>>
                 /\ \A s \in Range(rc[c].seats) : seatLock[s] = NoKey \/ HeldByOther(c, s))
    /\ [][\A c \in RCalls :
             /\ (LockStep(c) /\ ~GotLock(c)) =>
                   /\ res' = res /\ ev' = ev
                   /\ IF rc[c].idx > 0 THEN rc'[c].pc = "lockRollback" ELSE Fails(c, "Conflict")
             /\ (rc[c].pc = "lockRollback" /\ rc'[c] # rc[c]) =>
                   /\ \A s \in Holding(c) : seatLock'[s] = NoKey
                   /\ \A s \in Seats \ Holding(c) : seatLock'[s] = seatLock[s]
                   /\ res' = res /\ ev' = ev
                   /\ Fails(c, "Conflict")]_vars

\* a call for seats 1 and 2 took the lock of seat 1, was refused the lock of
\* seat 2 that another user's call holds, and returned Conflict with seat 1
\* unlocked again
C23_Witness ==
    \E c1, c2 \in RCalls :
        /\ rc[c1].pc = "done" /\ rc[c1].out = "Conflict"
        /\ Sort(rc[c1].seats) = <<1, 2>> /\ rc[c2].seats = <<2>>
        /\ rc[c1].user # rc[c2].user
        /\ seatLock[1] = NoKey /\ seatLock[2].val = rc[c2].user

\* the publishes the error handler made for message m to one exchange
PubsTo(m, ex) == SelectSeq(mq[m].pubs, LAMBDA p : p.ex = ex)

\* C24: a message is republished to cinema_retry at most MaxRetries times, with
\* x-retry-count 1, 2, ... in turn; it is published to cinema_dlq only after
\* MaxRetries republications, once, and then never republished or delivered
\* again; every failed delivery is acked once and republished to one exchange.
\* So a message that fails on every delivery ends in cinema_dlq after
\* MaxRetries + 1 failed deliveries.
C24_RetryBudget ==
    /\ [](\A m \in Msgs :
             LET retries == PubsTo(m, "cinema_retry")
                 dead == PubsTo(m, "cinema_dlq")
                 inHandler == IF mq[m].at = "handler" THEN 1 ELSE 0
             IN  /\ Len(retries) <= MaxRetries
                 /\ \A i \in DOMAIN retries : retries[i].count = i
                 /\ Len(dead) <= 1
                 /\ Len(dead) = 1 <=> mq[m].at = "dlq"
                 /\ Len(dead) = 1 =>
                       /\ Len(retries) = MaxRetries
                       /\ mq[m].pubs[Len(mq[m].pubs)].ex = "cinema_dlq"
                 /\ mq[m].acks = Len(mq[m].pubs)
                 /\ mq[m].fails = mq[m].acks + inHandler
                 /\ mq[m].fails <= MaxRetries + 1)
    /\ [][\A m \in Msgs :
             /\ mq[m].at = "dlq" => mq'[m] = mq[m]
             /\ (mq[m].at = "handler" /\ mq'[m] # mq[m]) =>
                   /\ Len(mq'[m].pubs) = Len(mq[m].pubs) + 1
                   /\ mq'[m].at = IF Len(PubsTo(m, "cinema_retry")) = MaxRetries
                                  THEN "dlq" ELSE "retry"]_vars

\* a message failed on each of its six deliveries and lies in cinema_dlq
C24_Witness ==
    \E m \in Msgs :
        /\ mq[m].at = "dlq"
        /\ mq[m].fails = MaxRetries + 1
        /\ Len(PubsTo(m, "cinema_retry")) = MaxRetries

\* call c returned the error of its insert transaction
InsertFailed(c) == rc[c].pc = "done" /\ rc[c].out = "Internal" /\ rc[c].rids = <<>>

\* C25: when the insert transaction fails after all locks were taken, the call
\* deletes its idempotency marker and every seat lock it took, creates no
\* reservation, and returns the error of the insert; when it has returned, its
\* marker and locks are gone (a marker or lock that is there belongs to a
\* later call), and a retry with the same key and seats does the work as first
\* writer: it succeeds with new reservations or fails on an error of its own
C25_PersistFailureCompensation ==
    /\ [](\A c \in RCalls :
             /\ InsertFailed(c) =>
                   /\ \A s \in Range(rc[c].seats) : seatLock[s] = NoKey \/ HeldByOther(c, s)
                   /\ rc[c].key =>
                         \/ idem[rc[c].user] = NoIdem
                         \/ \E c2 \in RCalls \ {c} :
                               rc[c2].key /\ rc[c2].user = rc[c].user /\ rc[c2].pc # "idle"
                   /\ (\A c2 \in RCalls \ {c} : rc[c2].pc = "idle") =>
                         /\ \A s \in Range(rc[c].seats) : seatLock[s] = NoKey /\ RowsOfSeat(s) = {}
                         /\ idem[rc[c].user] = NoIdem
             /\ (rc[c].pc = "done" /\ rc[c].retry) =>
                   \/ rc[c].out = "Internal"
                   \/ /\ rc[c].out = "ok"
                      /\ Len(rc[c].rids) = Len(rc[c].seats)
                      /\ rc[c].body.reservationIds = rc[c].rids)
    /\ [][\A c \in RCalls :
             /\ (rc[c].pc = "insert" /\ rc'[c] # rc[c] /\ rc'[c].pc # "publish") =>
                   /\ res' = res /\ ev' = ev
                   /\ rc'[c].err = "Internal"
                   /\ rc'[c].pc = IF rc[c].key THEN "catchIdem" ELSE "catchLocks"
             /\ (rc[c].pc = "catchIdem" /\ rc'[c] # rc[c]) =>
                   /\ idem'[rc[c].user] = NoIdem
                   /\ rc[c].acq # <<>> => rc'[c].pc = "catchLocks" /\ rc'[c].err = rc[c].err
             /\ (rc[c].pc = "catchLocks" /\ rc'[c] # rc[c]) =>
                   /\ \A s \in Range(rc[c].acq) : seatLock'[s] = NoKey
                   /\ rc'[c].pc = "done" /\ rc'[c].out = rc[c].err]_vars

\* a call's insert failed, and the retry with the same key and seats reserved
\* them
C25_Witness ==
    \E c1, c2 \in RCalls :
        /\ c1 # c2 /\ InsertFailed(c1) /\ rc[c1].key
        /\ rc[c2].pc = "done" /\ rc[c2].retry /\ rc[c2].out = "ok"
        /\ rc[c2].seats = rc[c1].seats /\ Len(rc[c2].rids) = Len(rc[c2].seats)
        /\ \A s \in Range(rc[c2].seats) : Cardinality(Pending(s)) = 1

\* call c is doing the reservation work: it is between the claim of the
\* idempotency marker and the store of the response
Working(c) ==
    rc[c].pc \in {"findSeats", "lock", "lockRollback", "stamp", "insert", "publish", "saveIdem"}

SameKey(c1, c2) == c1 # c2 /\ rc[c1].key /\ rc[c2].key /\ rc[c1].user = rc[c2].user

\* of the calls with one key, at most one is working while the marker is there
OneWorker ==
    \A c1, c2 \in RCalls :
        (SameKey(c1, c2) /\ idem[rc[c1].user] # NoIdem) => ~(Working(c1) /\ Working(c2))

\* C26: while a marker for (userId, key) is present at most one Reserve call is
\* doing the reservation work for that key, and every other call with the key
\* returns a stored response or fails with Conflict, having touched neither
\* seat locks nor the database
C26_SingleFirstWriter ==
    /\ OneWorker
    /\ \A c1, c2 \in RCalls :
          (SameKey(c1, c2) /\ rc[c2].pc = "done" /\ rc[c2].rids = <<>>
              /\ (Working(c1) \/ rc[c1].rids # <<>>)) =>
              \/ rc[c2].out = "Conflict"
              \/ rc[c2].out = "ok" /\ rc[c2].body.status = "undefined"

\* C27: when the reservation update of the Confirm transaction matches and the
\* seat update AVAILABLE -> SOLD matches no row, the call fails with Conflict
\* and nothing of the transaction remains: the reservation is PENDING as
\* before, no Sale is created, the seat is untouched, and the call publishes no
\* payment.confirmed
C27_SeatCheckRollsBack ==
    [][\A c \in CCalls :
          (cc[c].pc = "tx" /\ cc'[c] # cc[c]) =>
              LET row == res[cc[c].rid]
              IN  (CanConfirm(row, cc[c].now) /\ seatStatus[row.seatId] # "AVAILABLE") =>
                      /\ cc'[c].pc = "done" /\ cc'[c].out = "Conflict"
                      /\ res' = res /\ res[cc[c].rid].status = "PENDING"
                      /\ sales' = sales /\ seatStatus' = seatStatus /\ ev' = ev]_vars

\* a Confirm call on a PENDING, unexpired reservation of a seat already sold
\* was refused by the seat check: the reservation is still PENDING, without
\* Sale and without payment.confirmed
C27_Witness ==
    \E c \in CDoneCalls :
        /\ cc[c].out = "Conflict" /\ cc[c].fresh
        /\ res[cc[c].rid].status = "PENDING"
        /\ seatStatus[res[cc[c].rid].seatId] = "SOLD"
        /\ SalesOf(cc[c].rid) = {}
        /\ Published("payment.confirmed", cc[c].rid) = 0

\* no reservation is both sold and cancelled by the reaper
OneOutcome == \A i \in DOMAIN res : ~(SalesOf(i) # {} /\ res[i].by = "reaper")

\* C28: of a Confirm-Payment call and the reaper ticks on one reservation
\* exactly one takes effect, and for no reservation are payment.confirmed and
\* reservation.expired (or seat.released) both published
C28_ConfirmOrReap ==
    /\ OneOutcome
    /\ \A i \in DOMAIN res :
          ~(/\ Published("payment.confirmed", i) > 0
            /\ Published("reservation.expired", i) + Published("seat.released", i) > 0)

\* the step publishes an event of the given type for reservation i
Publishes(type, i) ==
    /\ i \in DOMAIN ev'[type]
    /\ ev'[type][i] > (IF i \in DOMAIN ev[type] THEN ev[type][i] ELSE 0)

\* C29: reservation.created is published only for a reservation row that is
\* already committed; payment.confirmed only when the transaction that set the
\* reservation CONFIRMED, the seat SOLD and created the Sale has committed; a
\* Confirm call whose transaction is rolled back changes nothing and publishes
\* nothing
C29_EventsFollowCommits ==
    [][/\ \A i \in DOMAIN res' :
             /\ Publishes("reservation.created", i) =>
                   /\ i \in DOMAIN res
                   /\ \E c \in RCalls : i \in Range(rc[c].rids) /\ rc[c].pc = "publish"
             /\ Publishes("payment.confirmed", i) =>
                   /\ i \in DOMAIN res
                   /\ res[i].status # "PENDING"
                   /\ SalesOf(i) # {}
                   /\ seatStatus[res[i].seatId] = "SOLD"
       /\ \A c \in CCalls :
             (cc[c].pc = "tx" /\ cc'[c].pc # "tx") =>
                 \/ /\ cc'[c].pc = "publish"
                    /\ res'[cc[c].rid].status = "CONFIRMED"
                    /\ \E x \in sales' : x.reservationId = cc[c].rid
                 \/ /\ cc'[c].pc = "done"
                    /\ UNCHANGED <<res, sales, seatStatus, ev>>]_vars

\* both events of a reservation were published, and it is CONFIRMED with a Sale
C29_Witness ==
    \E i \in DOMAIN res :
        /\ Published("reservation.created", i) = 1
        /\ Published("payment.confirmed", i) = 1
        /\ res[i].status = "CONFIRMED" /\ SalesOf(i) # {}
        /\ \E c \in CDoneCalls : cc[c].rid = i /\ cc[c].out # "ok"

\* C30: the lock deletion after the Confirm transaction is best-effort: whether
\* it succeeds or fails, the call reports success and the database state is
\* left as the transaction committed it
C30_BestEffortRelease ==
    [][\A c \in CCalls :
          (cc[c].pc = "delLock" /\ cc'[c] # cc[c]) =>
              /\ cc'[c].pc = "done" /\ cc'[c].out = "ok"
              /\ UNCHANGED <<res, seatStatus, sales>>]_vars

\* C31: a tick's release deletes the leader lock only if the key still holds
\* that tick's token; a tick whose lock ran out and was taken by another
\* replica leaves the successor's lock in place
C31_OwnerOnlyRelease ==
    [][\A p \in Replicas :
          (rp[p].pc = "release" /\ rp'[p].pc = "idle") =>
              leader' = IF leader = p THEN 0 ELSE leader]_vars

\* replica 2 holds the leader lock inside its tick, and replica 1, whose tick
\* overlapped (it cancelled a reservation that replica 2 had already found),
\* has released and is idle: its release left replica 2's lock
C31_Witness ==
    /\ leader = 2
    /\ rp[1].pc = "idle"
    /\ rp[2].pc = "cancel"
    /\ \E i \in rp[2].found : res[i].status = "CANCELLED" /\ res[i].by = "reaper"

\* C32: the only write to a seat's stored status is AVAILABLE -> SOLD, made by
\* the Confirm-Payment transaction of a reservation of that seat; Reserve, the
\* reaper and the read path leave every stored status as it is, and LOCKED is
\* never stored
C32_SeatStatusFrame ==
    /\ [](\A s \in Seats : seatStatus[s] \in {"AVAILABLE", "SOLD"})
    /\ [][\A s \in Seats :
             seatStatus'[s] # seatStatus[s] =>
                 /\ seatStatus[s] = "AVAILABLE" /\ seatStatus'[s] = "SOLD"
                 /\ \E c \in CCalls :
                       /\ cc[c].pc = "tx" /\ cc'[c].pc = "publish"
                       /\ res[cc[c].rid].seatId = s]_vars

\* one seat was sold, the reaper cancelled the reservation of the other, whose
\* seat is stored AVAILABLE as before, and the read path has answered
C32_Witness ==
    /\ \E s \in Seats : seatStatus[s] = "SOLD"
    /\ \E i \in DOMAIN res : res[i].by = "reaper" /\ seatStatus[res[i].seatId] = "AVAILABLE"
    /\ \A c \in RCalls : rc[c].pc = "done"
    /\ view.pc = "done"

\* the error handler republishes message m in this step
Handles(m) == mq[m].at = "handler" /\ mq'[m] # mq[m]
LastPub(m) == mq'[m].pubs[Len(mq'[m].pubs)]

\* the delays of the default options, by x-retry-count
DefaultDelays == <<1000, 2000, 4000, 8000, 16000>>

\* the delay is min(maxDelayMs, baseDelayMs * 2^n): the default delays for
\* n = 0..4, non-decreasing in n and never above maxDelayMs
DelayTable ==
    /\ \A n \in 0..MaxRetries - 1 : DelayMs(n) = DefaultDelays[n + 1]
    /\ \A n \in 0..MaxRetries + 1 :
          /\ DelayMs(n) <= MaxDelayMs
          /\ DelayMs(n) <= DelayMs(n + 1)
          /\ BaseDelayMs * 2 ^ n <= MaxDelayMs => DelayMs(n) = BaseDelayMs * 2 ^ n
          /\ BaseDelayMs * 2 ^ n > MaxDelayMs => DelayMs(n) = MaxDelayMs

C34_HeadersAcrossHops ==
    [][\A m \in Msgs :
          Handles(m) =>
              LET n == Len(mq[m].pubs)
              IN  /\ Len(mq'[m].pubs) = n + 1
                  /\ LastPub(m).ex \in {"cinema_retry", "cinema_dlq"}
                  /\ LastPub(m).rk = mq[m].rk
                  /\ mq[m].count = NoHeader => LastPub(m).count = 1
                  /\ mq[m].count.kind = "number" => LastPub(m).count = mq[m].count.n + 1
                  /\ mq'[m].count = Num(LastPub(m).count)
                  /\ IF n = 0
                     THEN /\ LastPub(m).origEx = mq[m].ex
                          /\ LastPub(m).origRk = mq[m].rk
                     ELSE /\ LastPub(m).count = mq[m].pubs[n].count + 1
                          /\ LastPub(m).origEx = mq[m].pubs[1].origEx
                          /\ LastPub(m).origRk = mq[m].pubs[1].origRk
                  /\ mq'[m].origEx = LastPub(m).origEx
                  /\ mq'[m].origRk = LastPub(m).origRk]_vars

\* a payment.confirmed message went through five retries into cinema_dlq, on
\* every hop under its routing key and with the original exchange and routing
\* key of its first delivery
C34_Witness ==
    \E m \in Msgs :
        /\ mq[m].at = "dlq" /\ Len(mq[m].pubs) = MaxRetries + 1
        /\ \A i \in DOMAIN mq[m].pubs :
              /\ mq[m].pubs[i].count = i
              /\ mq[m].pubs[i].rk = "payment.confirmed"
              /\ mq[m].pubs[i].origEx = "cinema_events"
              /\ mq[m].pubs[i].origRk = "payment.confirmed"

\* C35: in every reachable state each seat has at most one PENDING reservation
C35_OnePendingPerSeat == \A s \in Seats : Cardinality(Pending(s)) <= 1

\* C36: no PENDING reservation is created for a seat whose stored status is
\* SOLD when the row is inserted
C36_PrecheckAndLockAgree ==
    [][\A i \in DOMAIN res' :
          i \notin DOMAIN res => seatStatus[res'[i].seatId] # "SOLD"]_vars

\* C37: in every reachable state a seat's stored status is SOLD if and only if
\* exactly one reservation of that seat is CONFIRMED
C37_SoldIffOneConfirmed ==
    \A s \in Seats : seatStatus[s] = "SOLD" <=> Cardinality(Confirmed(s)) = 1

\* reservation.expired and seat.released have each been published exactly once
\* for reservation i
Announced(i) ==
    \A type \in {"reservation.expired", "seat.released"} :
        IF i \in DOMAIN ev[type] THEN ev[type][i] = 1 ELSE FALSE

\* C38: for every reservation that ends CANCELLED, by the reaper or by a
\* Confirm-Payment call after expiry, eventually exactly one reservation.expired
\* and one seat.released have been published
C38_CancellationAnnounced ==
    \A i \in 1..Cardinality(RCalls) : Cancelled(i) ~> Announced(i)

\* C39: when a Reserve call has returned an error, no reservation row created
\* by the call exists and no seat lock taken by the call is still held
C39_FailedReserveLeavesNothing ==
    \A c \in RDoneCalls :
        rc[c].out # "ok" =>
            /\ rc[c].rids = <<>>
            /\ \A s \in Range(rc[c].seats) : seatLock[s] = NoKey \/ HeldByOther(c, s)

\* replica p is inside the try block of a tick
InTry(p) == rp[p].pc \in {"find", "cancel", "delLocks"}

\* C40: a tick that acquired the leader lock leaves only through the
\* compare-and-delete release of its own token, on every exit path (nothing
\* found, zero rows updated, an exception of the database or the lock store);
\* a tick that did not acquire the lock reads and writes nothing in the DB
C40_LeaderLockGivenBack ==
    [][\A p \in Replicas :
          /\ (rp[p].pc = "idle" /\ rp'[p].pc # "idle") =>
                IF leader = 0 THEN leader' = p /\ rp'[p].pc = "find"
                ELSE rp'[p].pc = "refused" /\ leader' = leader
          /\ (InTry(p) /\ rp'[p] # rp[p]) =>
                rp'[p].pc \in {"cancel", "delLocks", "release"}
          /\ (rp[p].pc = "release" /\ rp'[p] # rp[p]) =>
                /\ rp'[p].pc = "idle"
                /\ leader' \in {leader, IF leader = p THEN 0 ELSE leader}
          /\ rp[p].pc = "refused" =>
                /\ rp'[p].pc \in {"refused", "idle"}
                /\ rp'[p] # rp[p] => UNCHANGED <<res, seatStatus, sales>>]_vars

\* a tick whose updateMany threw is in finally with the leader lock still its
\* own, while the tick of the other replica was refused the lock
C40_Witness ==
    \E p, p2 \in Replicas :
        /\ rp[p].pc = "release" /\ leader = p
        /\ \E i \in rp[p].found : res[i].status = "PENDING"
        /\ rp[p2].pc = "refused"
====
